---- MODULE Spec2Model ----
(***************************************************************************)
(* Model of the hybrid persistence engine of backend.py: the SQLite        *)
(* metadata store (papers, force_fields, figures), the two FAISS IDMap     *)
(* indexes (one in-memory copy per process, one file each on disk), the    *)
(* portalocker file lock, and ComplexPlasmaRAG.update_vector_db /          *)
(* search_knowledge running in several threads of several processes.       *)
(***************************************************************************)
EXTENDS Integers, Sequences, FiniteSets, TLC

\* ---------------------------------------------------------------- bounds
MaxCalls   == 2      \* update_vector_db calls that pass the quality gate
MaxFaults  == 1      \* injected faults: a raising collaborator, a process restart
MaxFigures == 1      \* figures per record
MaxTopK    == 2      \* largest top_k of a query
MaxLen      == 3      \* characters of a text given to get_embedding

\* ------------------------------------------------------------- universe
Procs   == {"P1", "P2"}
Workers == {"w1", "w2"}
\* The two callers are either two threads of process P1 (front.py's single
\* rag_system, served by Gradio's handler threads: they share its in-memory
\* indexes) or the threads of two processes over the same files.
Deployments ==
    { [w \in Workers |-> "P1"],
      [w \in Workers |-> IF w = "w1" THEN "P1" ELSE "P2"] }

Titles  == {"T1", "T2"}
NoKey   == "<absent>"            \* a key missing from a dict
NoRec   == [title |-> NoKey]
NoTx    == [open |-> FALSE]
Free    == "free"

\* A sub-record as update_vector_db reads it: ff.get('formula'), ff['name']
\* and ff['physical_significance'] (name = NoKey models a sub-record that
\* lacks one of the two subscripted keys, formula = NoKey one without
\* 'formula').
FF1 == [formula |-> "F1", name |-> "N1"]
FF2 == [formula |-> "F2", name |-> "N2"]

\* The force_fields lists of the records: none, one sub-record, the same
\* sub-record twice, two different sub-records.
ForceLists == { <<>>, <<FF1>>, <<FF1, FF1>>, <<FF1, FF2>> }

MkRecord(t, innov, bg, env, params, ffs, figs) ==
    [title |-> t, innovation |-> innov, detailed_background |-> bg,
     environment |-> env, parameters |-> params, force_fields |-> ffs,
     figures |-> figs, missing |-> {}]

\* structured_data without the keys ks ("metadata" takes title and
\* innovation with it)
Without(data, ks) == [data EXCEPT !.missing = @ \cup ks]

\* `key in dict`, for the keys update_vector_db and the quality gate read
Has(data, key) ==
    /\ key \notin data.missing
    /\ key \in {"title", "innovation"} => "metadata" \notin data.missing

\* dict.get(key, default)
Get(data, key, default) == IF Has(data, key) THEN data[key] ELSE default

\* Records that pass the quality gate: they differ in title and sub-records
\* and carry MaxFigures figures.
RichRecords ==
    { MkRecord(t, "I", "B", "E", 1, ffs, MaxFigures) :
        t \in Titles, ffs \in ForceLists }

\* Records that the quality gate rejects, one for each of its three tests.
PoorRecords ==
    { MkRecord("", "I", "B", "E", 1, <<>>, 0),
      MkRecord("T1", "I", "B", "E", 0, <<>>, 0),
      MkRecord("T1", "None", "None", "E", 1, <<>>, 0) }

Records == RichRecords \cup PoorRecords

\* The marker of the title that extract_paper_structure gives a paper it
\* could not parse (line 431: the marker followed by "_" and the file name),
\* and the texts that stand before and after it in the titles of the model.
FailureMark == "<parse failed>"
Affixes == {"", "_a.pdf"}

\* `mark in title` (line 612), for the titles of the model
Contains(title, mark) ==
    \E pre \in Affixes, suf \in Affixes : title = pre \o mark \o suf

\* mutant: the gate looks at the title only
_is_valid_physics_data_TitleOnly(data) ==
    LET title == Get(data, "title", "")
    IN  ~ (title = "" \/ Contains(title, FailureMark) \/ title = "Unknown")

\* ComplexPlasmaRAG._is_valid_physics_data
_is_valid_physics_data(data) ==
    LET title      == Get(data, "title", "")
        params     == Get(data, "parameters", 0)
        forces     == Get(data, "force_fields", <<>>)
        innovation == Get(data, "innovation", "None")
        background == Get(data, "detailed_background", "None")
    IN  /\ ~ (title = "" \/ Contains(title, FailureMark) \/ title = "Unknown")
        /\ ~ (params = 0 /\ forces = <<>>)
        /\ ~ (innovation \in {"None", "Unknown"}
                /\ background \in {"None", "Unknown"})

\* ComplexPlasmaRAG.get_embedding: the embedding service is a function of
\* the text it is sent; a vector is identified by that text.
get_embedding(text) == IF text = "" THEN "empty_input_placeholder" ELSE text

\* paper_text of update_vector_db
paper_text(data) ==
    "Title: " \o data.title \o ". Context: "
        \o Get(data, "detailed_background", "No background available")

\* force_feature of update_vector_db (defined when ff has both keys)
force_feature(ff) == "Interparticle Interaction: " \o ff.name

\* formula_str of update_vector_db; hashlib.md5 is taken to be injective,
\* so the fingerprint is the hashed string itself.
formula_hash(ff, data) ==
    (IF ff.formula = NoKey THEN "unknown_formula" ELSE ff.formula)
        \o Get(data, "environment", "unknown_env")


\* ---------------------------------------------------------------- state
VARIABLES
    db,            \* committed content of the SQLite file (tables + sqlite_sequence)
    tx,            \* tx[w]: the open transaction of worker w (its view of the tables)
    paper_index,   \* paper_index[p]: self.paper_index of process p (in memory)
    force_index,   \* force_index[p]: self.force_index of process p (in memory)
    paper_file,    \* entries of the file at paper_idx_path
    force_file,    \* entries of the file at force_idx_path
    paper_tmp,     \* the file at paper_idx_path + ".tmp"
    force_tmp,     \* the file at force_idx_path + ".tmp"
    lock,          \* holder of the portalocker lock on db_path + ".lock"
    pc,            \* pc[w]: position of worker w inside update_vector_db
    rec,           \* rec[w]: structured_data of the call worker w is in
    row_id,        \* row_id[w]: paper_row_id of worker w
    force_id,      \* force_id[w]: db_force_id of worker w
    ff_i,          \* ff_i[w]: position of worker w in the force_fields loop
    returned,      \* how the call that returned in the last step ended (or NoReturn)
    proc_of,       \* proc_of[w]: the process that thread w belongs to
    calls,         \* number of calls that passed the quality gate
    faults,        \* number of faults injected so far
    stored_by,     \* stored_by[id]: the process that committed papers row id
    orphans,       \* paper index entries written to the file by an ingest
                   \* whose process died before the commit
    arg,           \* structured_data of the last call, where the caller is observed
    search,        \* the call of search_knowledge in progress or last returned
    front,         \* the call of process_pdf_step in progress or last returned
    embed_call,    \* a call of get_embedding: its argument and the text it sent
    hash_call      \* two sub-records of the force_fields loop and their formula_str

\* the variables that update_vector_db leaves alone
other_vars == <<search, front, embed_call, hash_call>>

vars == <<db, tx, paper_index, force_index, paper_file, force_file,
          paper_tmp, force_tmp, lock, pc, rec, row_id, force_id, ff_i,
          returned, proc_of, calls, faults, stored_by, orphans, arg,
          search, front, embed_call, hash_call>>

ProcOf(w) == proc_of[w]

NoReturn == "none"
Return(w, result) == result
\* an exception that leaves update_vector_db
Escape(w, exception) == "raised_" \o exception

NoFile == [exists |-> FALSE, content |-> <<>>]

\* _init_sqlite: the three tables, empty, and their AUTOINCREMENT counters
EmptyDb ==
    [papers |-> {}, force_fields |-> {}, figures |-> {},
     seq_papers |-> 0, seq_force_fields |-> 0, seq_figures |-> 0]

\* __init__: faiss.read_index of the live file when it exists, otherwise a
\* new empty IndexIDMap (an absent file is the empty sequence of entries)
LoadIndex(file) == file

\* no call of search_knowledge, process_pdf_step or get_embedding so far
NoSearch == [state |-> "none", proc |-> "P1", query_text |-> "", top_k |-> 0,
             I1 |-> <<>>, I2 |-> <<>>, papers |-> <<>>, forces |-> <<>>,
             lock_seen |-> Free]
NoUpload == [pc |-> "idle", steps |-> [i \in 1 .. 5 |-> FALSE], status |-> "",
             structured_json |-> NoRec]
NoEmbedCall == [text |-> <<>>, sent |-> <<>>, done |-> FALSE]
NoHashCall == [pairs |-> <<>>, formula_str |-> <<>>]

\* ComplexPlasmaRAG.__init__ on an empty data directory
Constructed ==
    /\ db = EmptyDb
    /\ tx = [w \in Workers |-> NoTx]
    /\ paper_file = <<>>
    /\ force_file = <<>>
    /\ paper_index = [p \in Procs |-> LoadIndex(<<>>)]
    /\ force_index = [p \in Procs |-> LoadIndex(<<>>)]
    /\ paper_tmp = NoFile
    /\ force_tmp = NoFile
    /\ lock = Free
    /\ pc = [w \in Workers |-> "idle"]
    /\ rec = [w \in Workers |-> NoRec]
    /\ row_id = [w \in Workers |-> 0]
    /\ force_id = [w \in Workers |-> 0]
    /\ ff_i = [w \in Workers |-> 0]
    /\ returned = NoReturn
    /\ proc_of \in Deployments
    /\ calls = 0
    /\ faults = 0
    /\ stored_by = <<>>
    /\ orphans = {}
    /\ arg = NoRec

Init ==
    /\ Constructed
    /\ search = NoSearch
    /\ front = NoUpload
    /\ embed_call = NoEmbedCall
    /\ hash_call = NoHashCall

\* --------------------------------------------------------- SQL helpers
\* mutant: the title lookup finds nothing
SelectPaperByTitle_Blind(t, title) == {}

\* SELECT id FROM papers WHERE title = ?
SelectPaperByTitle(t, title) == {r \in t.papers : r.title = title}

\* title TEXT UNIQUE (line 81): an INSERT of a title that the lookup in the
\* unique index finds raises IntegrityError
UniqueTitleOK(t, title) == SelectPaperByTitle(t, title) = {}

\* mutant: the fingerprint lookup finds nothing
SelectForceByHash_Blind(t, h) == {}

\* SELECT id FROM force_fields WHERE formula_hash = ?
SelectForceByHash(t, h) == {r \in t.force_fields : r.formula_hash = h}

\* mutant: the INSERT takes the place of the rows that were there
InsertPaper_Replace(t, data) ==
    LET id == t.seq_papers + 1
    IN  [t EXCEPT !.papers = {[id |-> id, title |-> data.title,
                               metadata_json |-> data, vector_id |-> -1]},
                  !.seq_papers = id]

\* INSERT INTO papers (title, metadata_json, vector_id) VALUES (?, ?, -1);
\* the id is the AUTOINCREMENT successor of sqlite_sequence, which is part
\* of the transaction (a rollback restores it).
InsertPaper(t, data) ==
    LET id == t.seq_papers + 1
    IN  [t EXCEPT !.papers = @ \cup {[id |-> id, title |-> data.title,
                                      metadata_json |-> data, vector_id |-> -1]},
                  !.seq_papers = id]

\* mutant: the placeholder -1 is not replaced
UpdatePaperVectorId_NoBackfill(t, vid, id) == t

\* UPDATE papers SET vector_id = ? WHERE id = ?
UpdatePaperVectorId(t, vid, id) ==
    [t EXCEPT !.papers = {IF r.id = id THEN [r EXCEPT !.vector_id = vid] ELSE r : r \in @}]

\* INSERT INTO force_fields (formula_hash, force_json, source_paper, vector_id)
InsertForce(t, h, ff, title) ==
    LET id == t.seq_force_fields + 1
    IN  [t EXCEPT !.force_fields = @ \cup {[id |-> id, formula_hash |-> h,
                                            force_json |-> ff, source_paper |-> title,
                                            vector_id |-> -1]},
                  !.seq_force_fields = id]

\* UPDATE force_fields SET vector_id = ? WHERE id = ?
UpdateForceVectorId(t, vid, id) ==
    [t EXCEPT !.force_fields = {IF r.id = id THEN [r EXCEPT !.vector_id = vid] ELSE r : r \in @}]

\* the loop INSERT INTO figures (paper_id, ...) over structured_data["figures"]
RECURSIVE InsertFigures(_, _, _)
InsertFigures(t, paper_id, n) ==
    IF n = 0 THEN t
    ELSE LET id == t.seq_figures + 1
         IN  InsertFigures([t EXCEPT !.figures = @ \cup {[id |-> id, paper_id |-> paper_id]},
                                     !.seq_figures = id],
                           paper_id, n - 1)

\* index.add_with_ids(vec, [id]): IndexIDMap appends, it does not look at
\* the ids it already holds
add_with_ids(index, vec, id) == Append(index, [id |-> id, vec |-> vec])

\* ------------------------------------------------- update_vector_db
\* ok = FALSE: the external call of this step (embedding service, file
\* system) raises.
Fault(ok) ==
    IF ok THEN faults' = faults
    ELSE faults < MaxFaults /\ faults' = faults + 1

Idle(w) ==
    /\ pc' = [pc EXCEPT ![w] = "idle"]
    /\ rec' = [rec EXCEPT ![w] = NoRec]
    /\ row_id' = [row_id EXCEPT ![w] = 0]
    /\ force_id' = [force_id EXCEPT ![w] = 0]
    /\ ff_i' = [ff_i EXCEPT ![w] = 0]

\* mutant: the exception is swallowed inside the connection block, whose
\* exit then commits what the transaction did so far
RaiseInside_NoRollback(w) ==
    /\ db' = IF tx[w] = NoTx THEN db ELSE tx[w]
    /\ tx' = [tx EXCEPT ![w] = NoTx]
    /\ lock' = Free
    /\ returned' = Return(w, "error")
    /\ Idle(w)

\* mutant: the lock is not released when an exception leaves the block
RaiseInside_KeepLock(w) ==
    /\ db' = db
    /\ tx' = [tx EXCEPT ![w] = NoTx]
    /\ lock' = lock
    /\ returned' = Return(w, "error")
    /\ Idle(w)

\* Leaving `with sqlite3.connect(...)` and `with portalocker.Lock(...)` by
\* an exception (lines 663, 662, 770-772): the connection rolls the
\* transaction back, the lock is released, the handler prints.
RaiseInside(w) ==
    /\ db' = db
    /\ tx' = [tx EXCEPT ![w] = NoTx]
    /\ lock' = Free
    /\ returned' = Return(w, "error")
    /\ Idle(w)

\* mutant: the gate is looked at after the lock is taken
Enter_LockFirst(w, data) ==
    /\ pc[w] = "idle"
    /\ lock = Free
    /\ IF ~ Has(data, "title")
       THEN /\ returned' = Escape(w, "KeyError")
            /\ UNCHANGED <<calls, pc, rec, lock>>
       ELSE IF _is_valid_physics_data(data)
       THEN /\ calls < MaxCalls
            /\ calls' = calls + 1
            /\ pc' = [pc EXCEPT ![w] = "begin"]
            /\ rec' = [rec EXCEPT ![w] = data]
            /\ lock' = w
            /\ returned' = NoReturn
       ELSE /\ returned' = Return(w, "skipped_quality")
            /\ lock' = w
            /\ UNCHANGED <<calls, pc, rec>>
    /\ UNCHANGED <<db, tx, paper_index, force_index, paper_file, force_file,
                   paper_tmp, force_tmp, row_id, force_id, ff_i, orphans, stored_by, proc_of, other_vars, faults>>

\* lines 650-655: the subscripts of line 650 (a KeyError when 'metadata' or
\* 'title' is absent; it is raised before the try block is entered, so it
\* leaves the function) and the quality gate
Enter(w, data) ==
    /\ pc[w] = "idle"
    /\ IF ~ Has(data, "title")
       THEN /\ returned' = Escape(w, "KeyError")
            /\ UNCHANGED <<calls, pc, rec>>
       ELSE IF _is_valid_physics_data(data)
       THEN /\ calls < MaxCalls
            /\ calls' = calls + 1
            /\ pc' = [pc EXCEPT ![w] = "lock"]
            /\ rec' = [rec EXCEPT ![w] = data]
            /\ returned' = NoReturn
       ELSE /\ returned' = Return(w, "skipped_quality")
            /\ UNCHANGED <<calls, pc, rec>>
    /\ UNCHANGED <<db, tx, paper_index, force_index, paper_file, force_file,
                   paper_tmp, force_tmp, lock, row_id, force_id, ff_i, orphans, stored_by, proc_of, other_vars, faults>>

\* a call of update_vector_db by one of the concurrent callers
Call(w, data) == Enter(w, data) /\ UNCHANGED arg

\* mutant: the lock is taken without looking at its holder
LockFree_Always(l, w) == TRUE

\* line 662: portalocker.Lock(lock_path, timeout=10) obtains the lock when
\* no other open file description holds it
LockFree(l, w) == l = Free

AcquireLock(w) ==
    /\ pc[w] = "lock"
    /\ LockFree(lock, w)
    /\ lock' = w
    /\ pc' = [pc EXCEPT ![w] = "begin"]
    /\ returned' = NoReturn
    /\ UNCHANGED <<db, tx, paper_index, force_index, paper_file, force_file,
                   paper_tmp, force_tmp, rec, row_id, force_id, ff_i, calls, orphans, stored_by, proc_of, arg, other_vars, faults>>

\* mutant: after the timeout the call waits for the lock again
LockTimeout_Retry(w) ==
    /\ pc[w] = "lock"
    /\ lock # Free
    /\ returned' = Return(w, "error_lock")
    /\ UNCHANGED <<pc, rec, row_id, force_id, ff_i>>
    /\ UNCHANGED <<db, tx, paper_index, force_index, paper_file, force_file,
                   paper_tmp, force_tmp, lock, calls, orphans, stored_by, proc_of, arg, other_vars, faults>>

\* lines 662, 768-769: the lock stayed held for the whole timeout
LockTimeout(w) ==
    /\ pc[w] = "lock"
    /\ lock # Free
    /\ returned' = Return(w, "error_lock")
    /\ Idle(w)
    /\ UNCHANGED <<db, tx, paper_index, force_index, paper_file, force_file,
                   paper_tmp, force_tmp, lock, calls, orphans, stored_by, proc_of, arg, other_vars, faults>>

\* mutant: a found title is noticed after the paper row has been inserted
PaperInsert_LateLookup(w, embed_ok) ==
    /\ pc[w] = "begin"
    /\ Fault(embed_ok)
    /\ IF embed_ok
       THEN /\ tx' = [tx EXCEPT ![w] = InsertPaper(db, rec[w])]
            /\ row_id' = [row_id EXCEPT ![w] = db.seq_papers + 1]
            /\ pc' = [pc EXCEPT ![w] = "add_paper"]
            /\ returned' = NoReturn
            /\ UNCHANGED <<db, lock, rec, force_id, ff_i>>
       ELSE RaiseInside(w)
    /\ UNCHANGED <<paper_index, force_index, paper_file, force_file,
                   paper_tmp, force_tmp, calls, orphans, stored_by, proc_of, arg, other_vars>>

\* lines 663-692: connect, BEGIN, the title lookup, the paper embedding and
\* the INSERT with vector_id -1 (cursor.lastrowid is the new id).  A found
\* title returns from inside both `with` blocks (nothing to commit, lock
\* released) before get_embedding is reached; otherwise embed_ok = FALSE is
\* get_embedding raising.  The UNIQUE index on title makes the INSERT raise
\* when the title is present.
PaperInsert(w, embed_ok) ==
    /\ pc[w] = "begin"
    /\ Fault(embed_ok)
    /\ IF SelectPaperByTitle(db, rec[w].title) # {}
       THEN /\ embed_ok
            /\ tx' = [tx EXCEPT ![w] = NoTx]
            /\ lock' = Free
            /\ returned' = Return(w, "skipped_duplicate")
            /\ db' = db
            /\ Idle(w)
       ELSE IF embed_ok /\ UniqueTitleOK(db, rec[w].title)
       THEN /\ tx' = [tx EXCEPT ![w] = InsertPaper(db, rec[w])]
            /\ row_id' = [row_id EXCEPT ![w] = db.seq_papers + 1]
            /\ pc' = [pc EXCEPT ![w] = "add_paper"]
            /\ returned' = NoReturn
            /\ UNCHANGED <<db, lock, rec, force_id, ff_i>>
       ELSE RaiseInside(w)
    /\ UNCHANGED <<paper_index, force_index, paper_file, force_file,
                   paper_tmp, force_tmp, calls, orphans, stored_by, proc_of, arg, other_vars>>

\* line 696: self.paper_index.add_with_ids(paper_vec, [paper_row_id])
PaperAdd(w) ==
    /\ pc[w] = "add_paper"
    /\ paper_index' = [paper_index EXCEPT ![ProcOf(w)] =
                         add_with_ids(@, get_embedding(paper_text(rec[w])), row_id[w])]
    /\ pc' = [pc EXCEPT ![w] = "update_paper"]
    /\ returned' = NoReturn
    /\ UNCHANGED <<db, tx, force_index, paper_file, force_file, paper_tmp,
                   force_tmp, lock, rec, row_id, force_id, ff_i, calls, orphans, stored_by, proc_of, arg, other_vars, faults>>

\* mutant: the paper index is not saved before the transaction goes on
PaperUpdate_SkipSave(w) ==
    /\ pc[w] = "update_paper"
    /\ tx' = [tx EXCEPT ![w] = UpdatePaperVectorId(@, row_id[w], row_id[w])]
    /\ pc' = [pc EXCEPT ![w] = "figures"]
    /\ returned' = NoReturn
    /\ UNCHANGED <<db, paper_index, force_index, paper_file, force_file, paper_tmp,
                   force_tmp, lock, rec, row_id, force_id, ff_i, calls, orphans, stored_by, proc_of, arg, other_vars, faults>>

\* lines 700-701: UPDATE papers SET vector_id = paper_row_id
PaperUpdate(w) ==
    /\ pc[w] = "update_paper"
    /\ tx' = [tx EXCEPT ![w] = UpdatePaperVectorId(@, row_id[w], row_id[w])]
    /\ pc' = [pc EXCEPT ![w] = "write_paper"]
    /\ returned' = NoReturn
    /\ UNCHANGED <<db, paper_index, force_index, paper_file, force_file, paper_tmp,
                   force_tmp, lock, rec, row_id, force_id, ff_i, calls, orphans, stored_by, proc_of, arg, other_vars, faults>>

\* mutant: the handler of _safe_save_index does not remove the .tmp file
PaperWriteTmp_LeaveTmp(w, ok) ==
    /\ pc[w] = "write_paper"
    /\ Fault(ok)
    /\ IF ok
       THEN /\ paper_tmp' = [exists |-> TRUE, content |-> paper_index[ProcOf(w)]]
            /\ pc' = [pc EXCEPT ![w] = "replace_paper"]
            /\ returned' = NoReturn
            /\ UNCHANGED <<db, tx, lock, rec, row_id, force_id, ff_i>>
       ELSE /\ paper_tmp' = [exists |-> TRUE, content |-> <<>>]
            /\ RaiseInside(w)
    /\ UNCHANGED <<paper_index, force_index, paper_file, force_file,
                   force_tmp, calls, orphans, stored_by, proc_of, arg, other_vars>>

\* _safe_save_index, line 638: faiss.write_index(index, tmp_path); on an
\* error the handler removes the .tmp file and raises IOError.
PaperWriteTmp(w, ok) ==
    /\ pc[w] = "write_paper"
    /\ Fault(ok)
    /\ IF ok
       THEN /\ paper_tmp' = [exists |-> TRUE, content |-> paper_index[ProcOf(w)]]
            /\ pc' = [pc EXCEPT ![w] = "replace_paper"]
            /\ returned' = NoReturn
            /\ UNCHANGED <<db, tx, lock, rec, row_id, force_id, ff_i>>
       ELSE /\ paper_tmp' = NoFile
            /\ RaiseInside(w)
    /\ UNCHANGED <<paper_index, force_index, paper_file, force_file,
                   force_tmp, calls, orphans, stored_by, proc_of, arg, other_vars>>

\* mutant: a failing os.replace is swallowed and the ingest goes on
PaperReplace_Swallow(w, ok) ==
    /\ pc[w] = "replace_paper"
    /\ Fault(ok)
    /\ paper_tmp' = NoFile
    /\ paper_file' = IF ok THEN paper_tmp.content ELSE paper_file
    /\ pc' = [pc EXCEPT ![w] = "figures"]
    /\ returned' = NoReturn
    /\ UNCHANGED <<db, tx, lock, rec, row_id, force_id, ff_i>>
    /\ UNCHANGED <<paper_index, force_index, force_file,
                   force_tmp, calls, orphans, stored_by, proc_of, arg, other_vars>>

\* _safe_save_index, lines 640-644: os.replace(tmp_path, path); on an error
\* the handler removes the .tmp file and raises IOError.
PaperReplace(w, ok) ==
    /\ pc[w] = "replace_paper"
    /\ Fault(ok)
    /\ paper_tmp' = NoFile
    /\ IF ok
       THEN /\ paper_file' = paper_tmp.content
            /\ pc' = [pc EXCEPT ![w] = "figures"]
            /\ returned' = NoReturn
            /\ UNCHANGED <<db, tx, lock, rec, row_id, force_id, ff_i>>
       ELSE /\ RaiseInside(w)
            /\ UNCHANGED paper_file
    /\ UNCHANGED <<paper_index, force_index, force_file,
                   force_tmp, calls, orphans, stored_by, proc_of, arg, other_vars>>

\* lines 709-725: one figures row per figure when the record has the key
\* 'figures', paper_id = paper_row_id; without the key 'force_fields' the
\* loop and the save of line 764 are passed over
Figures(w) ==
    /\ pc[w] = "figures"
    /\ tx' = [tx EXCEPT ![w] = InsertFigures(@, row_id[w], Get(rec[w], "figures", 0))]
    /\ IF Has(rec[w], "force_fields")
       THEN /\ pc' = [pc EXCEPT ![w] = "force_loop"]
            /\ ff_i' = [ff_i EXCEPT ![w] = 1]
       ELSE /\ pc' = [pc EXCEPT ![w] = "commit"]
            /\ ff_i' = ff_i
    /\ returned' = NoReturn
    /\ UNCHANGED <<db, paper_index, force_index, paper_file, force_file, paper_tmp,
                   force_tmp, lock, rec, row_id, force_id, calls, orphans, stored_by, proc_of, arg, other_vars, faults>>

\* lines 726-754: one pass of the force_fields loop up to the INSERT: the
\* fingerprint, the lookup (`continue` when found), ff['name'] /
\* ff['physical_significance'] (KeyError when absent), get_embedding
\* (embed_ok = FALSE: it raises), INSERT with vector_id -1.  After the last
\* sub-record the loop is left for line 764.
ForceInsert(w, embed_ok) ==
    /\ pc[w] = "force_loop"
    /\ Fault(embed_ok)
    /\ LET ffs == rec[w].force_fields
           ff  == ffs[ff_i[w]]
           h   == formula_hash(ff, rec[w])
       IN  IF ff_i[w] > Len(ffs)
           THEN /\ embed_ok
                /\ pc' = [pc EXCEPT ![w] = "write_force"]
                /\ returned' = NoReturn
                /\ UNCHANGED <<db, tx, lock, rec, row_id, force_id, ff_i>>
           ELSE IF SelectForceByHash(tx[w], h) # {}
           THEN /\ embed_ok
                /\ ff_i' = [ff_i EXCEPT ![w] = @ + 1]
                /\ returned' = NoReturn
                /\ UNCHANGED <<db, tx, lock, rec, row_id, force_id, pc>>
           ELSE IF ff.name = NoKey \/ ~ embed_ok
           THEN RaiseInside(w)
           ELSE /\ tx' = [tx EXCEPT ![w] = InsertForce(@, h, ff, rec[w].title)]
                /\ force_id' = [force_id EXCEPT ![w] = tx[w].seq_force_fields + 1]
                /\ pc' = [pc EXCEPT ![w] = "add_force"]
                /\ returned' = NoReturn
                /\ UNCHANGED <<db, lock, rec, row_id, ff_i>>
    /\ UNCHANGED <<paper_index, force_index, paper_file, force_file,
                   paper_tmp, force_tmp, calls, orphans, stored_by, proc_of, arg, other_vars>>

\* line 757: self.force_index.add_with_ids(force_vec, [db_force_id])
ForceAdd(w) ==
    /\ pc[w] = "add_force"
    /\ force_index' = [force_index EXCEPT ![ProcOf(w)] =
                         add_with_ids(@, get_embedding(force_feature(rec[w].force_fields[ff_i[w]])),
                                      force_id[w])]
    /\ pc' = [pc EXCEPT ![w] = "update_force"]
    /\ returned' = NoReturn
    /\ UNCHANGED <<db, tx, paper_index, paper_file, force_file, paper_tmp,
                   force_tmp, lock, rec, row_id, force_id, ff_i, calls, orphans, stored_by, proc_of, arg, other_vars, faults>>

\* lines 760-761: UPDATE force_fields SET vector_id = db_force_id
ForceUpdate(w) ==
    /\ pc[w] = "update_force"
    /\ tx' = [tx EXCEPT ![w] = UpdateForceVectorId(@, force_id[w], force_id[w])]
    /\ force_id' = [force_id EXCEPT ![w] = 0]
    /\ ff_i' = [ff_i EXCEPT ![w] = @ + 1]
    /\ pc' = [pc EXCEPT ![w] = "force_loop"]
    /\ returned' = NoReturn
    /\ UNCHANGED <<db, paper_index, force_index, paper_file, force_file, paper_tmp,
                   force_tmp, lock, rec, row_id, calls, orphans, stored_by, proc_of, arg, other_vars, faults>>

\* line 764 -> _safe_save_index line 638, for the force index
ForceWriteTmp(w, ok) ==
    /\ pc[w] = "write_force"
    /\ Fault(ok)
    /\ IF ok
       THEN /\ force_tmp' = [exists |-> TRUE, content |-> force_index[ProcOf(w)]]
            /\ pc' = [pc EXCEPT ![w] = "replace_force"]
            /\ returned' = NoReturn
            /\ UNCHANGED <<db, tx, lock, rec, row_id, force_id, ff_i>>
       ELSE /\ force_tmp' = NoFile
            /\ RaiseInside(w)
    /\ UNCHANGED <<paper_index, force_index, paper_file, force_file,
                   paper_tmp, calls, orphans, stored_by, proc_of, arg, other_vars>>

\* line 764 -> _safe_save_index line 640, for the force index
ForceReplace(w, ok) ==
    /\ pc[w] = "replace_force"
    /\ Fault(ok)
    /\ force_tmp' = NoFile
    /\ IF ok
       THEN /\ force_file' = force_tmp.content
            /\ pc' = [pc EXCEPT ![w] = "commit"]
            /\ returned' = NoReturn
            /\ UNCHANGED <<db, tx, lock, rec, row_id, force_id, ff_i>>
       ELSE /\ RaiseInside(w)
            /\ UNCHANGED force_file
    /\ UNCHANGED <<paper_index, force_index, paper_file,
                   paper_tmp, calls, orphans, stored_by, proc_of, arg, other_vars>>

\* line 766 and the two `with` exits: conn.commit(), lock released
Commit(w) ==
    /\ pc[w] = "commit"
    /\ db' = tx[w]
    /\ stored_by' = [id \in {r.id : r \in tx[w].papers} |->
                        IF id \in DOMAIN stored_by THEN stored_by[id] ELSE ProcOf(w)]
    /\ tx' = [tx EXCEPT ![w] = NoTx]
    /\ lock' = Free
    /\ returned' = Return(w, "stored")
    /\ Idle(w)
    /\ UNCHANGED <<paper_index, force_index, paper_file, force_file,
                   paper_tmp, force_tmp, calls, orphans, proc_of, arg, other_vars, faults>>

\* ------------------------------------------------- process death / start
\* pcs at which the paper index file already holds the entry of the ingest
AfterPaperReplace ==
    {"figures", "force_loop", "add_force", "update_force", "write_force",
     "replace_force", "commit"}

\* The bytes of a file whose writer was stopped part-way: the entries
\* written so far, the last of them cut short.
Torn == [id |-> -1, vec |-> "<torn>"]
Partial(index) == Append(SubSeq(index, 1, Len(index) - 1), Torn)
Complete(content) == \A i \in DOMAIN content : content[i] # Torn

\* mutant: the index is written straight to the live path (the save that
\* line 704 keeps as a comment)
KilledInSave_InPlace(live, tmp, index) ==
    { <<live, tmp>>, <<Partial(index), tmp>> }

\* _safe_save_index stopped by a kill of the process inside
\* faiss.write_index(index, tmp_path): the pairs <<live file, .tmp file>>
\* it can leave behind (stopped before the first byte, or part-way)
KilledInSave(live, tmp, index) ==
    { <<live, tmp>>, <<live, [exists |-> TRUE, content |-> Partial(index)]>> }

\* The process p is killed (or exits) and is started again: its threads and their open
\* transactions are gone (SQLite discards the uncommitted changes), the OS
\* drops its file lock, and __init__ (lines 43-69) loads both indexes from
\* the live files as the kill left them.
Restart(p) ==
    LET mine == {w \in Workers : ProcOf(w) = p}
    IN  /\ Fault(FALSE)
        /\ tx' = [w \in Workers |-> IF w \in mine THEN NoTx ELSE tx[w]]
        /\ lock' = IF lock \in mine THEN Free ELSE lock
        /\ pc' = [w \in Workers |-> IF w \in mine THEN "idle" ELSE pc[w]]
        /\ rec' = [w \in Workers |-> IF w \in mine THEN NoRec ELSE rec[w]]
        /\ row_id' = [w \in Workers |-> IF w \in mine THEN 0 ELSE row_id[w]]
        /\ force_id' = [w \in Workers |-> IF w \in mine THEN 0 ELSE force_id[w]]
        /\ ff_i' = [w \in Workers |-> IF w \in mine THEN 0 ELSE ff_i[w]]
        /\ returned' = NoReturn
        /\ paper_index' = [paper_index EXCEPT ![p] = LoadIndex(paper_file')]
        /\ force_index' = [force_index EXCEPT ![p] = LoadIndex(force_file')]
        /\ orphans' = orphans \cup
              { [id |-> row_id[w], vec |-> get_embedding(paper_text(rec[w]))] :
                    w \in {v \in mine : pc[v] \in AfterPaperReplace} }
        /\ search' = IF search.proc = p /\ search.state = "searched"
                     THEN NoSearch ELSE search
        /\ front' = IF ProcOf("w1") = p THEN NoUpload ELSE front
        /\ UNCHANGED <<db, calls, stored_by, proc_of, arg, embed_call, hash_call>>

\* The process is killed between two steps of its threads: the live files
\* and the .tmp files stay as they are.
CrashRestart(p) ==
    /\ UNCHANGED <<paper_file, force_file, paper_tmp, force_tmp>>
    /\ Restart(p)

\* The process is killed while one of its threads is inside
\* faiss.write_index of _safe_save_index (line 638).
CrashInSave(p) ==
    /\ \E w \in Workers :
          /\ ProcOf(w) = p
          /\ \/ /\ pc[w] = "write_paper"
                /\ \E left \in KilledInSave(paper_file, paper_tmp, paper_index[p]) :
                      paper_file' = left[1] /\ paper_tmp' = left[2]
                /\ UNCHANGED <<force_file, force_tmp>>
             \/ /\ pc[w] = "write_force"
                /\ \E left \in KilledInSave(force_file, force_tmp, force_index[p]) :
                      force_file' = left[1] /\ force_tmp' = left[2]
                /\ UNCHANGED <<paper_file, paper_tmp>>
    /\ Restart(p)

\* The concurrent callers pass records that the quality gate lets through
\* (the gate is exercised by NextInput, where the argument is observed).
Next ==
    \/ \E w \in Workers, data \in RichRecords : Call(w, data)
    \/ \E w \in Workers : AcquireLock(w)
    \/ \E w \in Workers : LockTimeout(w)
    \/ \E w \in Workers, ok \in BOOLEAN : PaperInsert(w, ok)
    \/ \E w \in Workers : PaperAdd(w)
    \/ \E w \in Workers : PaperUpdate(w)
    \/ \E w \in Workers, ok \in BOOLEAN : PaperWriteTmp(w, ok)
    \/ \E w \in Workers, ok \in BOOLEAN : PaperReplace(w, ok)
    \/ \E w \in Workers : Figures(w)
    \/ \E w \in Workers, ok \in BOOLEAN : ForceInsert(w, ok)
    \/ \E w \in Workers : ForceAdd(w)
    \/ \E w \in Workers : ForceUpdate(w)
    \/ \E w \in Workers, ok \in BOOLEAN : ForceWriteTmp(w, ok)
    \/ \E w \in Workers, ok \in BOOLEAN : ForceReplace(w, ok)
    \/ \E w \in Workers : Commit(w)
    \/ \E p \in Procs : CrashRestart(p)

Spec == Init /\ [][Next]_vars

TypeOK ==
    /\ lock \in Workers \cup {Free}
    /\ \A w \in Workers : rec[w] = NoRec \/ _is_valid_physics_data(rec[w])
    /\ calls \in 0 .. MaxCalls
    /\ faults \in 0 .. MaxFaults

\* ------------------------------------------------- search_knowledge
\* Squared L2 distance between two embeddings: 0 for the same text, positive
\* (here 1) for different texts.
Distance(q, v) == IF q = v THEN 0 ELSE 1

\* index.search(query_vector, top_k): the positions of the top_k nearest
\* entries, nearest first, equal distances in insertion order; 0 where the
\* index has fewer than top_k entries (FAISS returns the id -1 there).
SearchPositions(index, q, k) ==
    LET before(i, j) == \/ Distance(q, index[i].vec) < Distance(q, index[j].vec)
                        \/ /\ Distance(q, index[i].vec) = Distance(q, index[j].vec)
                           /\ i < j
        rank(j) == Cardinality({i \in DOMAIN index : before(i, j)})
    IN  [n \in 1 .. k |->
            IF n <= Len(index)
            THEN CHOOSE j \in DOMAIN index : rank(j) = n - 1
            ELSE 0]

\* I1[0] / I2[0] of search_knowledge
SearchIds(index, q, k) ==
    [n \in 1 .. k |->
        LET pos == SearchPositions(index, q, k)[n]
        IN  IF pos = 0 THEN -1 ELSE index[pos].id]

\* SELECT metadata_json FROM papers WHERE vector_id = ?
SelectPaperByVectorId(t, v_id) == {r \in t.papers : r.vector_id = v_id}

\* The texts of the queries
Queries == {paper_text(r) : r \in RichRecords}

\* SELECT force_json, source_paper FROM force_fields WHERE vector_id = ?
SelectForceByVectorId(t, v_id) == {r \in t.force_fields : r.vector_id = v_id}

\* json.loads(res[0]) of the papers loop (line 500)
PaperPayload(r) == r.metadata_json

\* f_data of the force_fields loop (lines 509-511)
ForcePayload(r) == [force_json |-> r.force_json, source_from |-> r.source_paper]

\* mutant: the search connection reads the rows of an open transaction
SearchView_ReadUncommitted ==
    IF \E w \in Workers : tx[w] # NoTx
    THEN tx[CHOOSE w \in Workers : tx[w] # NoTx]
    ELSE db

\* sqlite3.connect(self.db_path) of line 494: a connection of its own, which
\* reads the committed tables (journal_mode=WAL, lines 73-75)
SearchView == db

\* mutant: the loop is left at the first id that has no row
RECURSIVE JoinPapers_StopAtMissing(_, _)
JoinPapers_StopAtMissing(ids, t) ==
    IF ids = <<>> THEN <<>>
    ELSE LET res == SelectPaperByVectorId(t, Head(ids))
         IN  IF Head(ids) = -1 THEN JoinPapers_StopAtMissing(Tail(ids), t)
             ELSE IF res = {} THEN <<>>
             ELSE <<PaperPayload(CHOOSE r \in res : TRUE)>>
                      \o JoinPapers_StopAtMissing(Tail(ids), t)

\* lines 496-502: the loop over I1[0]; -1 is skipped, fetchone() takes a row
\* when there is one, an id without a row appends nothing
RECURSIVE JoinPapers(_, _)
JoinPapers(ids, t) ==
    IF ids = <<>> THEN <<>>
    ELSE LET res == SelectPaperByVectorId(t, Head(ids))
         IN  (IF Head(ids) = -1 \/ res = {} THEN <<>>
              ELSE <<PaperPayload(CHOOSE r \in res : TRUE)>>)
                 \o JoinPapers(Tail(ids), t)

\* lines 504-512: the loop over I2[0]
RECURSIVE JoinForces(_, _)
JoinForces(ids, t) ==
    IF ids = <<>> THEN <<>>
    ELSE LET res == SelectForceByVectorId(t, Head(ids))
         IN  (IF Head(ids) = -1 \/ res = {} THEN <<>>
              ELSE <<ForcePayload(CHOOSE r \in res : TRUE)>>)
                 \o JoinForces(Tail(ids), t)

\* lines 485-492: the query embedding and the two index searches, by a
\* thread of process p; embed_ok = FALSE is get_embedding raising, which
\* leaves search_knowledge.  The lock file is not looked at.
SearchIndex(p, query_text, top_k, embed_ok) ==
    /\ search.state \in {"none", "returned", "raised"}
    /\ Fault(embed_ok)
    /\ search' = IF embed_ok
                 THEN [NoSearch EXCEPT
                         !.state = "searched", !.proc = p,
                         !.query_text = query_text, !.top_k = top_k,
                         !.I1 = SearchIds(paper_index[p], get_embedding(query_text), top_k),
                         !.I2 = SearchIds(force_index[p], get_embedding(query_text), top_k)]
                 ELSE [NoSearch EXCEPT
                         !.state = "raised", !.proc = p,
                         !.query_text = query_text, !.top_k = top_k]
    /\ UNCHANGED <<db, tx, paper_index, force_index, paper_file, force_file,
                   paper_tmp, force_tmp, lock, pc, rec, row_id, force_id, ff_i,
                   returned, proc_of, calls, stored_by, orphans, arg,
                   front, embed_call, hash_call>>

\* lines 494-514: the two loops inside one connection, and the return;
\* lock_seen notes the holder of the ingest lock while the loops ran
SearchJoin ==
    /\ search.state = "searched"
    /\ search' = [search EXCEPT
                    !.state = "returned",
                    !.papers = JoinPapers(search.I1, SearchView),
                    !.forces = JoinForces(search.I2, SearchView),
                    !.lock_seen = lock]
    /\ UNCHANGED <<db, tx, paper_index, force_index, paper_file, force_file,
                   paper_tmp, force_tmp, lock, pc, rec, row_id, force_id, ff_i,
                   returned, proc_of, calls, faults, stored_by, orphans, arg,
                   front, embed_call, hash_call>>

\* search_knowledge(query_text, top_k) of process p, run without another
\* step in between: the pair of lists it returns
search_knowledge(p, query_text, top_k) ==
    <<JoinPapers(SearchIds(paper_index[p], get_embedding(query_text), top_k), SearchView),
      JoinForces(SearchIds(force_index[p], get_embedding(query_text), top_k), SearchView)>>

\* ================================================================ claims
InCriticalSection ==
    {"begin", "add_paper", "update_paper", "write_paper", "replace_paper",
     "figures", "force_loop", "add_force", "update_force", "write_force",
     "replace_force", "commit"}

\* the ids held by an index, and whether an index holds an id
IdsOf(index) == {index[i].id : i \in DOMAIN index}
IdsUnique(index) == \A i, j \in DOMAIN index : index[i].id = index[j].id => i = j

\* C1: every committed row of papers and of force_fields has vector_id equal
\* to its own primary key id; no committed row carries the placeholder -1.
C1_VectorIdIsPrimaryKey ==
    /\ \A r \in db.papers : r.vector_id = r.id /\ r.vector_id # -1
    /\ \A r \in db.force_fields : r.vector_id = r.id /\ r.vector_id # -1

\* a record with a sub-record is committed after a call that failed
C1_Witness ==
    /\ faults > 0
    /\ returned = "stored"
    /\ db.papers # {}
    /\ db.force_fields # {}

\* C2: no two committed papers rows have the same title, whatever the
\* interleaving of the calls of the threads and processes.
C2_TitlesUnique ==
    \A r1, r2 \in db.papers : r1.title = r2.title => r1 = r2

\* a call with a title that is already committed has just been skipped
C2_Witness ==
    /\ returned = "skipped_duplicate"
    /\ db.papers # {}

\* C3: a step of the force_fields loop on a sub-record whose fingerprint the
\* transaction already holds (from an earlier record or from an earlier
\* sub-record of the same record) inserts no row, adds nothing to the force
\* index, raises nothing and goes on to the next sub-record, the fingerprint
\* staying on exactly one row; and the commit that ends the ingest stores the
\* record with every fingerprint of its sub-records on exactly one row.
C3_CollidingSubRecordSkipped ==
    [][ \A w \in Workers :
          /\ ( /\ pc[w] = "force_loop"
               /\ ff_i[w] <= Len(rec[w].force_fields)
               /\ \E f \in tx[w].force_fields :
                     f.formula_hash = formula_hash(rec[w].force_fields[ff_i[w]], rec[w])
               /\ <<pc[w], ff_i[w]>>' # <<pc[w], ff_i[w]>>
               /\ faults' = faults )
             => /\ pc'[w] = "force_loop"
                /\ ff_i'[w] = ff_i[w] + 1
                /\ returned' = NoReturn
                /\ tx'[w] = tx[w]
                /\ force_index' = force_index
                /\ Cardinality({f \in tx'[w].force_fields :
                     f.formula_hash = formula_hash(rec[w].force_fields[ff_i[w]], rec[w])}) = 1
          /\ ( pc[w] = "commit" /\ returned' = "stored" )
             => /\ \E r \in db'.papers : r.title = rec[w].title
                /\ \A i \in DOMAIN rec[w].force_fields :
                     Cardinality({f \in db'.force_fields :
                        f.formula_hash = formula_hash(rec[w].force_fields[i], rec[w])}) = 1
      ]_vars

\* a record has just been stored whose sub-record's fingerprint is on a row
\* that an earlier record introduced
C3_Witness ==
    /\ returned = "stored"
    /\ \E r \in db.papers : \E i \in DOMAIN r.metadata_json.force_fields :
          \E f \in db.force_fields :
             /\ f.formula_hash = formula_hash(r.metadata_json.force_fields[i], r.metadata_json)
             /\ f.source_paper # r.title

\* C4: when two processes have each ingested one record, the titles are
\* distinct and both records are stored (and nothing else has happened), the
\* paper index file holds exactly two entries, their ids the two primary keys.
C4_BothEntriesInFile ==
    ( /\ calls = 2
      /\ faults = 0
      /\ \A w \in Workers : pc[w] = "idle"
      /\ \E r1, r2 \in db.papers : stored_by[r1.id] # stored_by[r2.id] )
    => /\ Len(paper_file) = 2
       /\ IdsOf(paper_file) = {r.id : r \in db.papers}

\* C5: every committed papers row with vector_id K has an entry K in the
\* paper index file, and every committed force_fields row with vector_id K
\* has an entry K in the force index file.
C5_CommittedRowsArePersisted ==
    /\ \A r \in db.papers : r.vector_id \in IdsOf(paper_file)
    /\ \A r \in db.force_fields : r.vector_id \in IdsOf(force_file)

\* C6: a vector that an ingest wrote to the paper index file before its
\* process died uncommitted (and that is not the vector of a committed row of
\* the same record) is joined to no row by search_knowledge, in any process,
\* for any query and top_k.
C6_OrphanNeverJoined ==
    \A p \in Procs, q \in Queries, k \in 1 .. MaxTopK : \A n \in 1 .. k :
        LET pos == SearchPositions(paper_index[p], get_embedding(q), k)[n]
            e   == paper_index[p][pos]
        IN  ( /\ pos # 0
              /\ e \in orphans
              /\ ~ \E r \in db.papers :
                     r.id = e.id /\ get_embedding(paper_text(r.metadata_json)) = e.vec )
            => SelectPaperByVectorId(db, SearchIds(paper_index[p], get_embedding(q), k)[n]) = {}

\* C7: no two entries of a paper index or of a force index (in the memory of
\* a process or in the file) share an identifier.
C7_IndexIdsUnique ==
    /\ \A p \in Procs : IdsUnique(paper_index[p]) /\ IdsUnique(force_index[p])
    /\ IdsUnique(paper_file)
    /\ IdsUnique(force_file)

\* C8: a thread that is inside the critical section holds the lock (so at
\* most one thread of any process is inside), and every change of a
\* transaction, of an in-memory index by an ingest, of an index file and of
\* the committed tables is made by the thread that holds the lock.
C8_WritesUnderLock ==
    [][ /\ \A w \in Workers : pc[w] \in InCriticalSection => lock = w
        /\ \A w \in Workers : pc'[w] \in InCriticalSection => lock' = w
        /\ \A w \in Workers : (tx'[w] # tx[w] /\ tx'[w] # NoTx) => lock = w
        /\ (db' # db \/ paper_file' # paper_file \/ force_file' # force_file)
              => lock \in Workers
        /\ db' # db => db' = tx[lock]
        /\ \A p \in Procs :
              ( faults' = faults
                /\ (paper_index'[p] # paper_index[p] \/ force_index'[p] # force_index[p]) )
              => (lock \in Workers /\ ProcOf(lock) = p)
      ]_vars

\* a thread is about to commit while another thread of the same process
\* waits for the lock
C8_Witness ==
    \E w, v \in Workers :
        /\ w # v
        /\ ProcOf(w) = ProcOf(v)
        /\ pc[w] = "commit"
        /\ pc[v] = "lock"

\* C9 as stated: no reader observes an index file that contains a vector
\* whose row the committed metadata does not contain.
C9_NoPartialVisibility ==
    /\ IdsOf(paper_file) \subseteq {r.id : r \in db.papers}
    /\ IdsOf(force_file) \subseteq {r.id : r \in db.force_fields}

\* C9 amended: the index files are replaced before the commit, so a reader
\* can see them ahead of the metadata; but the step that makes an ingest's
\* rows visible changes neither index file, and at that step the files
\* already hold an entry for every row the commit adds.
C9_FilesAheadOfCommit ==
    [][ db' # db =>
          /\ paper_file' = paper_file
          /\ force_file' = force_file
          /\ \A r \in db'.papers \ db.papers : r.id \in IdsOf(paper_file)
          /\ \A r \in db'.force_fields \ db.force_fields : r.id \in IdsOf(force_file)
      ]_vars

\* a commit has just made a second record and a sub-record visible
C9_Witness ==
    /\ returned = "stored"
    /\ Cardinality(db.papers) = 2
    /\ db.force_fields # {}

\* C10: the committed tables hold, for every papers row, all of the record's
\* figures rows and a force_fields row for each of its sub-records, and hold
\* no figures row and no force_fields row of a record that is not committed.
C10_IngestIsAtomic ==
    /\ \A g \in db.figures : \E r \in db.papers : r.id = g.paper_id
    /\ \A f \in db.force_fields : \E r \in db.papers : r.title = f.source_paper
    /\ \A r \in db.papers :
          /\ Cardinality({g \in db.figures : g.paper_id = r.id}) = r.metadata_json.figures
          /\ \A i \in DOMAIN r.metadata_json.force_fields :
                \E f \in db.force_fields :
                   f.formula_hash = formula_hash(r.metadata_json.force_fields[i], r.metadata_json)

\* an ingest has just failed after an earlier one stored a record with a
\* figure and a sub-record
C10_Witness ==
    /\ returned = "error"
    /\ db.papers # {}
    /\ db.figures # {}
    /\ db.force_fields # {}

\* ================================================================
\* One caller, any input: update_vector_db called again and again by one
\* thread of one process with records of every shape (keys absent,
\* placeholders, malformed sub-records), collaborators that may raise and a
\* process that may be killed and started again.
Caller == "w1"

FFBad       == [formula |-> "F2", name |-> NoKey]
FFNoFormula == [formula |-> NoKey, name |-> "N3"]

\* records that pass the quality gate
GoodInputs ==
    { MkRecord("T1", "I", "B", "E", 1, <<FF1>>, MaxFigures),
      MkRecord("T2", "I", "B", "E", 1, <<FF1>>, MaxFigures),
      MkRecord("T2", "I", "B", "E", 1, <<FF1, FFBad>>, MaxFigures),
      Without(MkRecord("T1", "I", "B", "E", 1, <<>>, 0), {"force_fields", "figures"}),
      MkRecord("T1", "", "", "E", 1, <<>>, 0),
      Without(MkRecord("T2", "None", "B", "E", 0, <<FFNoFormula>>, 0),
              {"innovation", "environment"}) }

\* records that the quality gate rejects
BadInputs ==
    PoorRecords \cup
    { MkRecord("", "I", "B", "E", 1, <<FF1>>, MaxFigures),
      MkRecord("Unknown", "I", "B", "E", 1, <<FF1>>, MaxFigures),
      MkRecord(FailureMark \o "_a.pdf", "I", "B", "E", 1, <<FF1>>, MaxFigures),
      MkRecord("T1", "I", "B", "E", 0, <<>>, MaxFigures),
      Without(MkRecord("T1", "I", "B", "E", 0, <<>>, MaxFigures),
              {"parameters", "force_fields"}),
      MkRecord("T1", "None", "Unknown", "E", 1, <<FF1>>, MaxFigures),
      Without(MkRecord("T1", "None", "None", "E", 1, <<FF1>>, MaxFigures),
              {"innovation", "detailed_background"}) }

\* records without the keys that line 650 subscripts
KeylessInputs ==
    { Without(MkRecord("", "None", "B", "E", 1, <<FF1>>, MaxFigures), {"metadata"}),
      Without(MkRecord("", "I", "B", "E", 1, <<FF1>>, MaxFigures), {"title"}) }

Inputs == GoodInputs \cup BadInputs \cup KeylessInputs

\* a call of update_vector_db whose argument is observed
CallInput(w, data) == Enter(w, data) /\ arg' = data

InitInput ==
    /\ Init
    /\ proc_of = [w \in Workers |-> "P1"]

NextInput ==
    \/ \E data \in Inputs : CallInput(Caller, data)
    \/ AcquireLock(Caller)
    \/ \E ok \in BOOLEAN : PaperInsert(Caller, ok)
    \/ PaperAdd(Caller)
    \/ PaperUpdate(Caller)
    \/ \E ok \in BOOLEAN : PaperWriteTmp(Caller, ok)
    \/ \E ok \in BOOLEAN : PaperReplace(Caller, ok)
    \/ Figures(Caller)
    \/ \E ok \in BOOLEAN : ForceInsert(Caller, ok)
    \/ ForceAdd(Caller)
    \/ ForceUpdate(Caller)
    \/ \E ok \in BOOLEAN : ForceWriteTmp(Caller, ok)
    \/ \E ok \in BOOLEAN : ForceReplace(Caller, ok)
    \/ Commit(Caller)
    \/ CrashRestart(ProcOf(Caller))
    \/ CrashInSave(ProcOf(Caller))

SpecInput == InitInput /\ [][NextInput]_vars

\* the step in which the caller's call begins
CallStep == pc[Caller] = "idle" /\ faults' = faults

\* the outcomes a call may end in
Outcomes == {"stored", "skipped_quality", "skipped_duplicate", "error", "error_lock"}

\* C11: a call of update_vector_db, whatever record it is given (also one
\* without 'metadata' or 'title', or with malformed sub-records), ends in one
\* of the outcomes stored, skipped or error; no exception leaves it.
C11_EveryCallHasAnOutcome ==
    returned # NoReturn => returned \in Outcomes

\* the title is empty (absent counts as empty) or carries the failure mark,
\* or parameters and force_fields are both empty or absent
EmptyKeyOrContent(data) ==
    \/ ~ Has(data, "title")
    \/ data.title = ""
    \/ Contains(data.title, FailureMark)
    \/ /\ (~ Has(data, "parameters") \/ data.parameters = 0)
       /\ (~ Has(data, "force_fields") \/ data.force_fields = <<>>)

\* C12: a call with a record whose title is empty or the failure placeholder,
\* or whose parameters and force_fields are both empty or absent, does not
\* enter the ingest and changes no table, whatever else the record holds and
\* whatever the store holds; no such record is on a committed or an
\* uncommitted papers row.
C12_GateKeepsEmptyRecordsOut ==
    [][ /\ (CallStep /\ EmptyKeyOrContent(arg'))
             => /\ returned' \in {"skipped_quality", Escape(Caller, "KeyError")}
                /\ pc' = pc
                /\ db' = db
        /\ \A r \in db'.papers : ~ EmptyKeyOrContent(r.metadata_json)
        /\ \A w \in Workers :
              tx'[w] # NoTx => \A r \in tx'[w].papers : ~ EmptyKeyOrContent(r.metadata_json)
      ]_vars

\* a record with a title but without parameters and sub-records has just
\* been rejected by a store that holds a record of the same title
C12_Witness ==
    /\ returned = "skipped_quality"
    /\ EmptyKeyOrContent(arg)
    /\ Has(arg, "title")
    /\ \E r \in db.papers : r.title = arg.title

\* the field is present and is neither empty nor a placeholder
Populated(data, key) ==
    /\ Has(data, key)
    /\ data[key] \notin {"", "None", "Unknown"}

\* C13: every stored record has metadata.innovation or
\* physics_context.detailed_background populated: not absent, not empty and
\* not one of the placeholders 'None' and 'Unknown'.
C13_StoredRecordsAreEnriched ==
    \A r \in db.papers :
        \/ Populated(r.metadata_json, "innovation")
        \/ Populated(r.metadata_json, "detailed_background")

\* C14: a call that the quality gate rejects changes nothing: the lock, the
\* transactions, the committed tables, the in-memory indexes, the index files
\* and the .tmp files stay as they are, no step of the ingest (lock,
\* embedding, INSERT) is begun and no collaborator is called.
C14_RejectionChangesNothing ==
    [][ returned' = "skipped_quality"
          => /\ lock' = lock
             /\ tx' = tx
             /\ db' = db
             /\ paper_index' = paper_index
             /\ force_index' = force_index
             /\ paper_file' = paper_file
             /\ force_file' = force_file
             /\ paper_tmp' = paper_tmp
             /\ force_tmp' = force_tmp
             /\ pc' = pc
             /\ rec' = rec
             /\ calls' = calls
             /\ faults' = faults
      ]_vars

\* a record whose two summaries are placeholders has just been rejected by a
\* store that holds a record and an index entry
C14_Witness ==
    /\ returned = "skipped_quality"
    /\ ~ EmptyKeyOrContent(arg)
    /\ ~ Populated(arg, "innovation")
    /\ ~ Populated(arg, "detailed_background")
    /\ db.papers # {}
    /\ paper_file # <<>>

\* ================================================================
\* Two callers and the lock: the two threads (of one process or of two)
\* call update_vector_db with records of either title, collaborators may
\* raise and a process may be killed and started again.
LockRecords ==
    { MkRecord(t, "I", "B", "E", 1, <<FF1>>, MaxFigures) : t \in Titles }

NextLock ==
    \/ \E w \in Workers, data \in LockRecords : Call(w, data)
    \/ \E w \in Workers : AcquireLock(w)
    \/ \E w \in Workers : LockTimeout(w)
    \/ \E w \in Workers, ok \in BOOLEAN : PaperInsert(w, ok)
    \/ \E w \in Workers : PaperAdd(w)
    \/ \E w \in Workers : PaperUpdate(w)
    \/ \E w \in Workers, ok \in BOOLEAN : PaperWriteTmp(w, ok)
    \/ \E w \in Workers, ok \in BOOLEAN : PaperReplace(w, ok)
    \/ \E w \in Workers : Figures(w)
    \/ \E w \in Workers, ok \in BOOLEAN : ForceInsert(w, ok)
    \/ \E w \in Workers : ForceAdd(w)
    \/ \E w \in Workers : ForceUpdate(w)
    \/ \E w \in Workers, ok \in BOOLEAN : ForceWriteTmp(w, ok)
    \/ \E w \in Workers, ok \in BOOLEAN : ForceReplace(w, ok)
    \/ \E w \in Workers : Commit(w)
    \/ \E p \in Procs : CrashRestart(p)

SpecLock == Init /\ [][NextLock]_vars

\* the index files, the .tmp files and the in-memory indexes stay as they are
IndexesUnchanged ==
    /\ paper_index' = paper_index
    /\ force_index' = force_index
    /\ paper_file' = paper_file
    /\ force_file' = force_file
    /\ paper_tmp' = paper_tmp
    /\ force_tmp' = force_tmp

\* C15: the step of a call whose title the committed papers table holds is
\* the return `skipped_duplicate`: it commits nothing, leaves the three
\* tables, both in-memory indexes and both index files as they are, adds none
\* of the record's sub-records and figures, and releases the lock.
C15_DuplicateChangesNothing ==
    [][ \A w \in Workers :
          /\ ( /\ pc[w] = "begin"
               /\ \E r \in db.papers : r.title = rec[w].title
               /\ pc'[w] # pc[w]
               /\ faults' = faults )
             => returned' = "skipped_duplicate"
          /\ ( returned' = "skipped_duplicate" /\ pc[w] = "begin" /\ pc'[w] = "idle" )
             => /\ \E r \in db.papers : r.title = rec[w].title
                /\ db' = db
                /\ tx'[w] = NoTx
                /\ IndexesUnchanged
                /\ lock = w
                /\ lock' = Free
      ]_vars

\* with two processes, a call has just been skipped as a duplicate of the
\* one record that is stored, its sub-record and figures with it
C15_Witness ==
    /\ returned = "skipped_duplicate"
    /\ proc_of["w1"] # proc_of["w2"]
    /\ Cardinality(db.papers) = 1
    /\ Cardinality(db.force_fields) = 1
    /\ Cardinality(db.figures) = MaxFigures

\* C16: a call that waited for the lock during the whole timeout ends in the
\* lock error: the step changes no table, no transaction, no index and no
\* file, leaves the lock with its holder, and the call is over (it does not
\* wait for the lock again).
C16_LockTimeoutWritesNothing ==
    [][ returned' = "error_lock"
          => /\ \E w \in Workers :
                   /\ pc[w] = "lock"
                   /\ pc'[w] = "idle"
                   /\ rec'[w] = NoRec
                   /\ lock \notin {Free, w}
                   /\ tx[w] = NoTx
             /\ db' = db
             /\ tx' = tx
             /\ lock' = lock
             /\ IndexesUnchanged
      ]_vars

\* a call has just timed out while the holder of the lock has an open
\* transaction
C16_Witness ==
    /\ returned = "error_lock"
    /\ lock # Free
    /\ tx[lock] # NoTx

\* C17: when faiss.write_index or os.replace fails in _safe_save_index, the
\* step ends the call in an error and leaves no .tmp file for that index,
\* the live file of that index as it was, the committed tables as they were
\* and the transaction of the call rolled back.
C17_FailedSaveRollsBack ==
    [][ \A w \in Workers :
          /\ ( pc[w] \in {"write_paper", "replace_paper"} /\ returned' = "error" )
             => /\ paper_tmp' = NoFile
                /\ paper_file' = paper_file
                /\ db' = db
                /\ tx[w] # NoTx
                /\ tx'[w] = NoTx
                /\ pc'[w] = "idle"
          /\ ( pc[w] \in {"write_force", "replace_force"} /\ returned' = "error" )
             => /\ force_tmp' = NoFile
                /\ force_file' = force_file
                /\ db' = db
                /\ tx[w] # NoTx
                /\ tx'[w] = NoTx
                /\ pc'[w] = "idle"
      ]_vars

\* the save of the paper index of a second record has just failed: the
\* in-memory index holds its entry, the live file and the table do not
C17_Witness ==
    /\ returned = "error"
    /\ paper_tmp = NoFile
    /\ Len(paper_file) = 1
    /\ Len(paper_index[ProcOf(Caller)]) = 2
    /\ Cardinality(db.papers) = 1

\* C18: the file at the live path of either index is at every instant a
\* complete index (or absent), also after the process was killed inside
\* _safe_save_index, and so is what every process loaded from it; content
\* that was written in part is at the .tmp path only.
C18_LiveFileIsComplete ==
    /\ Complete(paper_file)
    /\ Complete(force_file)
    /\ \A p \in Procs : Complete(paper_index[p]) /\ Complete(force_index[p])

\* the process was killed while it wrote the .tmp file of the paper index of
\* a second record, and has been started again
C18_Witness ==
    /\ paper_tmp.exists
    /\ ~ Complete(paper_tmp.content)
    /\ Len(paper_file) = 1
    /\ paper_index[ProcOf(Caller)] = paper_file
    /\ pc[Caller] = "idle"

\* The steps of thread w between the acquisition of the lock and the return.
Inside(w) ==
    \/ \E ok \in BOOLEAN : PaperInsert(w, ok)
    \/ PaperAdd(w)
    \/ PaperUpdate(w)
    \/ \E ok \in BOOLEAN : PaperWriteTmp(w, ok)
    \/ \E ok \in BOOLEAN : PaperReplace(w, ok)
    \/ Figures(w)
    \/ \E ok \in BOOLEAN : ForceInsert(w, ok)
    \/ ForceAdd(w)
    \/ ForceUpdate(w)
    \/ \E ok \in BOOLEAN : ForceWriteTmp(w, ok)
    \/ \E ok \in BOOLEAN : ForceReplace(w, ok)
    \/ Commit(w)

\* A thread that is inside the critical section goes on running: SQLite, FAISS
\* and the file system answer, and the embedding service answers or raises.
FairSpecLock == SpecLock /\ \A w \in Workers : WF_vars(Inside(w))

\* C19: a call that holds the lock gives it up in the step in which it
\* returns, whichever way it returns (stored, duplicate title, exception),
\* the lock is held by a thread that is inside the critical section only, and
\* a held lock is eventually free again for the next ingest of any process.
C19_LockIsReleased ==
    /\ [][ /\ \A w \in Workers :
                (pc[w] \in InCriticalSection /\ pc'[w] = "idle") => lock' = Free
           /\ lock' # Free => pc'[lock'] \in InCriticalSection
         ]_vars
    /\ (lock # Free) ~> (lock = Free)

\* a thread of one process holds the lock after a call of the other process
\* stored a record and a call ended in an exception
C19_Witness ==
    /\ lock # Free
    /\ faults > 0
    /\ \E id \in DOMAIN stored_by : stored_by[id] # ProcOf(lock)
    /\ \A w \in Workers : tx[w] = NoTx

\* C20: while the threads of two processes are both inside update_vector_db
\* with gate-passing records of distinct titles that are not stored yet (and
\* no collaborator has failed), a call that returns returns `stored`.
C20_BothCallsStored ==
    [][ ( /\ proc_of["w1"] # proc_of["w2"]
          /\ faults' = 0
          /\ pc["w1"] # "idle"
          /\ pc["w2"] # "idle"
          /\ rec["w1"].title # rec["w2"].title
          /\ \A w \in Workers : ~ \E r \in db.papers : r.title = rec[w].title
          /\ returned' # NoReturn )
        => returned' = "stored"
      ]_vars

\* ------------------------------------------------------------------
\* Queries beside ingests: two callers of update_vector_db and a thread that
\* calls search_knowledge (generate_simulation_plan, line 531) in either
\* process, with the canonical text of a record or of a sub-record.
SearchQueries == {paper_text(r) : r \in LockRecords} \cup {force_feature(FF1)}

NextSearch ==
    \/ \E w \in Workers, data \in LockRecords : Call(w, data)
    \/ \E w \in Workers : AcquireLock(w)
    \/ \E w \in Workers : LockTimeout(w)
    \/ \E w \in Workers, ok \in BOOLEAN : PaperInsert(w, ok)
    \/ \E w \in Workers : PaperAdd(w)
    \/ \E w \in Workers : PaperUpdate(w)
    \/ \E w \in Workers, ok \in BOOLEAN : PaperWriteTmp(w, ok)
    \/ \E w \in Workers, ok \in BOOLEAN : PaperReplace(w, ok)
    \/ \E w \in Workers : Figures(w)
    \/ \E w \in Workers, ok \in BOOLEAN : ForceInsert(w, ok)
    \/ \E w \in Workers : ForceAdd(w)
    \/ \E w \in Workers : ForceUpdate(w)
    \/ \E w \in Workers, ok \in BOOLEAN : ForceWriteTmp(w, ok)
    \/ \E w \in Workers, ok \in BOOLEAN : ForceReplace(w, ok)
    \/ \E w \in Workers : Commit(w)
    \/ \E p \in Procs : CrashRestart(p)
    \/ \E p \in Procs, q \in SearchQueries, k \in 1 .. MaxTopK, ok \in BOOLEAN :
          SearchIndex(p, q, k, ok)
    \/ SearchJoin

SpecSearch == Init /\ [][NextSearch]_vars

Range(seq) == {seq[i] : i \in DOMAIN seq}

\* C21: in every reachable state, for every committed record, every process
\* and every top_k >= 1, search_knowledge called with the record's own
\* embedding text returns that record in its papers list.
C21_OwnTextFindsRecord ==
    \A p \in Procs, r \in db.papers, k \in 1 .. MaxTopK :
        PaperPayload(r) \in
            Range(search_knowledge(p, paper_text(r.metadata_json), k)[1])

\* the positions of ids that are not the sentinel and have a row in rows
KeptPositions(ids, rows) ==
    {n \in DOMAIN ids : ids[n] # -1 /\ \E r \in rows : r.vector_id = ids[n]}

\* result is the list of payload[row of ids[n]] for n in KeptPositions, in
\* the order of ids (payload: the payload of each row)
IsJoinOf(result, ids, rows, payload) ==
    LET kept == KeptPositions(ids, rows)
    IN  /\ Len(result) = Cardinality(kept)
        /\ \A n \in kept :
              \E r \in rows :
                 /\ r.vector_id = ids[n]
                 /\ result[1 + Cardinality({m \in kept : m < n})] = payload[r]

\* ids is what a search of index for q with top_k returns: the ids of
\* top_k different entries none of which is farther than an entry left out,
\* nearest first, then -1 up to top_k
IsNearestFirst(ids, index, q, top_k) ==
    LET m == IF top_k <= Len(index) THEN top_k ELSE Len(index)
    IN  /\ Len(ids) = top_k
        /\ \A n \in m + 1 .. top_k : ids[n] = -1
        /\ \E f \in [1 .. m -> DOMAIN index] :
              /\ \A a, b \in 1 .. m : f[a] = f[b] => a = b
              /\ \A n \in 1 .. m : ids[n] = index[f[n]].id
              /\ \A a, b \in 1 .. m :
                    a < b => Distance(q, index[f[a]].vec) <= Distance(q, index[f[b]].vec)
              /\ \A n \in 1 .. m, j \in DOMAIN index :
                    (\A a \in 1 .. m : f[a] # j)
                        => Distance(q, index[f[n]].vec) <= Distance(q, index[j].vec)

\* C22: the ids a call of search_knowledge works on are the nearest-first
\* search results of the two indexes of its process, and each of the two
\* lists it returns is that id list with the sentinel -1 and the ids without
\* a row left out (the call returns all the same) and every other id
\* replaced by the payload of its row, in the same order.
C22_ListsAreJoinedSearchResults ==
    [][ /\ (search'.state = "searched" /\ search' # search)
            => /\ IsNearestFirst(search'.I1, paper_index[search'.proc],
                                 get_embedding(search'.query_text), search'.top_k)
               /\ IsNearestFirst(search'.I2, force_index[search'.proc],
                                 get_embedding(search'.query_text), search'.top_k)
        /\ (search.state = "searched" /\ search' # search /\ search'.state # "none")
            => /\ search'.state = "returned"
               /\ search'.I1 = search.I1 /\ search'.I2 = search.I2
               /\ IsJoinOf(search'.papers, search.I1, db.papers,
                           [r \in db.papers |-> r.metadata_json])
               /\ IsJoinOf(search'.forces, search.I2, db.force_fields,
                           [r \in db.force_fields |->
                               [force_json |-> r.force_json,
                                source_from |-> r.source_paper]])
      ]_vars

\* a call returned whose paper ids were an id without a row followed by an
\* id with a row, and whose force ids held the sentinel
C22_Witness ==
    /\ search.state = "returned"
    /\ search.top_k = 2
    /\ search.I1[1] # -1
    /\ SelectPaperByVectorId(db, search.I1[1]) = {}
    /\ \E r \in db.papers : r.vector_id = search.I1[2] /\ search.papers = <<r.metadata_json>>
    /\ -1 \in Range(search.I2)
    /\ Len(search.forces) = 1

\* C23: a step of search_knowledge neither takes nor frees the ingest lock
\* (it runs whoever holds it), and the lists a call returned hold payloads
\* of committed rows only.
C23_SearchIsLockFreeAndCommittedOnly ==
    /\ [][ (search' # search /\ search'.state # "none") => lock' = lock ]_vars
    /\ [] ( search.state = "returned"
              => /\ \A i \in DOMAIN search.papers :
                       \E r \in db.papers : search.papers[i] = r.metadata_json
                 /\ \A i \in DOMAIN search.forces :
                       \E r \in db.force_fields :
                          /\ search.forces[i].force_json = r.force_json
                          /\ search.forces[i].source_from = r.source_paper )

\* a call returned a record while another thread was inside the critical
\* section holding the lock, its own row inserted and not yet committed
C23_Witness ==
    /\ search.state = "returned"
    /\ search.papers # <<>>
    /\ lock # Free
    /\ search.lock_seen = lock
    /\ pc[lock] \in InCriticalSection \ {"begin"}
    /\ row_id[lock] \in Range(search.I1)
    /\ tx[lock] # NoTx

\* ------------------------------------------------------------------
\* front.py, process_pdf_step: one upload handled by the thread Caller of
\* the process that holds rag_system.
Steps(n) == [i \in 1 .. 5 |-> i <= n]

\* mutant: the fallback carries a parameter and an innovation text
default_structure_Rich(title) == MkRecord(title, "I", "None", "Unknown", 1, <<>>, 0)

\* default_structure of extract_paper_structure (lines 429-443)
default_structure(title) == MkRecord(title, "None", "None", "Unknown", 0, <<>>, 0)

\* What extract_paper_structure returns when json.loads fails (lines 473-482):
\* default_structure with the failure title, or with the title that the
\* regular expression salvaged from the stage-1 text (any text, also none).
FallbackStructures ==
    { default_structure(t) : t \in {FailureMark \o "_a.pdf", "", "Unknown"} \cup Titles }

\* What extract_paper_structure returns when json.loads succeeds (lines
\* 451-471): what the model wrote, laid over default_structure; a
\* 'metadata' that is not a dict is a record without that key.
ParsedStructures == Inputs

\* process_pdf_step(None), lines 644-647
UploadNone ==
    /\ front.pc \in {"idle", "returned"}
    /\ pc[Caller] = "idle"
    /\ front' = [NoUpload EXCEPT !.pc = "returned", !.status = "upload_first"]
    /\ returned' = NoReturn
    /\ UNCHANGED <<db, tx, paper_index, force_index, paper_file, force_file,
                   paper_tmp, force_tmp, lock, pc, rec, row_id, force_id, ff_i,
                   proc_of, calls, faults, stored_by, orphans, arg,
                   search, embed_call, hash_call>>

\* lines 648-665 and 681-688: steps[0], the call of extract_paper_structure
\* and, when it returns, steps[1] and steps[2]; when it raises (raised =
\* TRUE; lines 346-357, 412-422 re-raise what the model services raise) the
\* handler returns the failure status with the steps reached so far.
ExtractStep(raised, structured_json) ==
    /\ front.pc \in {"idle", "returned"}
    /\ pc[Caller] = "idle"
    /\ front' = IF raised
                THEN [NoUpload EXCEPT !.pc = "returned", !.steps = Steps(1),
                                      !.status = "parse_failed"]
                ELSE [NoUpload EXCEPT !.pc = "extracted", !.steps = Steps(3),
                                      !.structured_json = structured_json]
    /\ returned' = NoReturn
    /\ UNCHANGED <<db, tx, paper_index, force_index, paper_file, force_file,
                   paper_tmp, force_tmp, lock, pc, rec, row_id, force_id, ff_i,
                   proc_of, calls, faults, stored_by, orphans, arg,
                   search, embed_call, hash_call>>

\* line 669: rag_system.update_vector_db(structured_json)
UpdateCall ==
    /\ front.pc = "extracted"
    /\ returned = NoReturn
    /\ CallInput(Caller, front.structured_json)

\* lines 670-679 and 681-688: update_vector_db has returned (it returns
\* None on every path) or an exception has left it; after a return
\* steps[3] and steps[4] are set and the saved status is returned, after an
\* exception the failure status with the steps reached so far.
FinishStep ==
    /\ front.pc = "extracted"
    /\ pc[Caller] = "idle"
    /\ returned # NoReturn
    /\ front' = IF returned \in {Escape(Caller, "KeyError")}
                THEN [front EXCEPT !.pc = "returned", !.status = "parse_failed"]
                ELSE [front EXCEPT !.pc = "returned", !.steps = Steps(5),
                                   !.status = "saved"]
    /\ UNCHANGED <<db, tx, paper_index, force_index, paper_file, force_file,
                   paper_tmp, force_tmp, lock, pc, rec, row_id, force_id, ff_i,
                   returned, proc_of, calls, faults, stored_by, orphans, arg,
                   search, embed_call, hash_call>>

NextFront ==
    \/ UploadNone
    \/ ExtractStep(TRUE, NoRec)
    \/ \E data \in ParsedStructures \cup FallbackStructures : ExtractStep(FALSE, data)
    \/ UpdateCall
    \/ FinishStep
    \/ AcquireLock(Caller)
    \/ \E ok \in BOOLEAN : PaperInsert(Caller, ok)
    \/ PaperAdd(Caller)
    \/ PaperUpdate(Caller)
    \/ \E ok \in BOOLEAN : PaperWriteTmp(Caller, ok)
    \/ \E ok \in BOOLEAN : PaperReplace(Caller, ok)
    \/ Figures(Caller)
    \/ \E ok \in BOOLEAN : ForceInsert(Caller, ok)
    \/ ForceAdd(Caller)
    \/ ForceUpdate(Caller)
    \/ \E ok \in BOOLEAN : ForceWriteTmp(Caller, ok)
    \/ \E ok \in BOOLEAN : ForceReplace(Caller, ok)
    \/ Commit(Caller)
    \/ CrashRestart(ProcOf(Caller))

SpecFront == InitInput /\ [][NextFront]_vars

\* the step in which process_pdf_step's thread calls update_vector_db
UpdateCalled ==
    /\ pc[Caller] = "idle"
    /\ front' = front
    /\ pc'[Caller] = "lock" \/ returned' # NoReturn

\* C24: update_vector_db is called only with the structure that the
\* extraction of the same upload returned (never after it raised); called
\* with the fallback structure, salvaged title or not, it returns at the
\* quality gate and changes nothing, and process_pdf_step then returns
\* without a second call; no stored row holds a fallback structure.
C24_FailedExtractionStoresNothing ==
    /\ [][ UpdateCalled => front.pc = "extracted" /\ arg' = front.structured_json ]_vars
    /\ [][ (UpdateCalled /\ arg' \in FallbackStructures)
              => /\ returned' = Return(Caller, "skipped_quality")
                 /\ pc'[Caller] = "idle"
                 /\ UNCHANGED <<db, tx, paper_index, force_index, paper_file,
                                force_file, paper_tmp, force_tmp, lock, calls>> ]_vars
    /\ [][ (front.pc = "extracted" /\ returned = Return(Caller, "skipped_quality"))
              => (front' = front \/ front'.pc \in {"returned", "idle"}) /\ pc'[Caller] = "idle" ]_vars
    /\ [] (\A r \in db.papers : r.metadata_json \notin FallbackStructures)

\* an upload whose extraction fell back with a salvaged title has returned,
\* after a record with that very title was stored by an earlier upload
C24_Witness ==
    /\ front.pc = "returned"
    /\ front.structured_json = default_structure("T2")
    /\ arg = front.structured_json
    /\ returned = Return(Caller, "skipped_quality")
    /\ \E r \in db.papers : r.title = "T1"
    /\ ~ \E r \in db.papers : r.title = "T2"

\* C30: when process_pdf_step has returned the saved status, or a step list
\* with 'Embedding' or 'Indexed' done, a papers row with the title of the
\* extracted record is committed.
C30_SuccessMeansCommitted ==
    ( /\ front.pc = "returned"
      /\ front.status = "saved" \/ front.steps[4] \/ front.steps[5] )
    => \E r \in db.papers : r.title = front.structured_json.title

\* C25: a step never changes or removes a committed row of papers (title,
\* payload, vector_id) or of force_fields (fingerprint, payload,
\* source_paper, vector_id): every row of the committed tables is a row of
\* the committed tables after the step.
C25_CommittedRowsAreFrozen ==
    [][ /\ db.papers \subseteq db'.papers
        /\ db.force_fields \subseteq db'.force_fields ]_vars

\* two records with the same sub-record are stored, by committed ingests one
\* after the other; the one force_fields row names the first as its source
C25_Witness ==
    /\ Cardinality(db.papers) = 2
    /\ Cardinality(db.force_fields) = 1
    /\ \A w \in Workers : pc[w] = "idle"
    /\ \A f \in db.force_fields :
          \E r \in db.papers : r.id = 1 /\ f.source_paper = r.title
                                  /\ f.force_json = r.metadata_json.force_fields[1]

\* ------------------------------------------------------------------
\* get_embedding on texts as sequences of characters: a letter, the space,
\* the newline and the tab.
Chars == {"a", " ", "\n", "\t"}

RECURSIVE TextsOfLen(_)
TextsOfLen(n) ==
    IF n = 0 THEN {<<>>}
    ELSE {Append(t, c) : t \in TextsOfLen(n - 1), c \in Chars}

\* the texts of at most n characters
TextsUpTo(n) == UNION {TextsOfLen(k) : k \in 0 .. n}

\* str.isspace of one character
IsSpace(c) == c \in {" ", "\n", "\t"}

\* str.strip(): the text without its leading and trailing whitespace
RECURSIVE LStrip(_)
LStrip(s) == IF s # <<>> /\ IsSpace(Head(s)) THEN LStrip(Tail(s)) ELSE s

RECURSIVE RStrip(_)
RStrip(s) ==
    IF s # <<>> /\ IsSpace(s[Len(s)]) THEN RStrip(SubSeq(s, 1, Len(s) - 1)) ELSE s

strip(s) == RStrip(LStrip(s))

\* str.replace(old, new) for single characters
replace(s, old, new) == [i \in DOMAIN s |-> IF s[i] = old THEN new ELSE s[i]]

\* "empty_input_placeholder"
Placeholder ==
    <<"e", "m", "p", "t", "y", "_", "i", "n", "p", "u", "t", "_",
      "p", "l", "a", "c", "e", "h", "o", "l", "d", "e", "r">>

\* mutant: only the empty text is replaced by the placeholder
embedding_input_NoStrip(text) ==
    replace(IF text = <<>> THEN Placeholder ELSE text, "\n", " ")

\* get_embedding, lines 595-601: the `input` that client.embeddings.create
\* is given for the argument text
embedding_input(text) ==
    replace(IF text = <<>> \/ strip(text) = <<>> THEN Placeholder ELSE text, "\n", " ")

\* paper_text (line 677), force_feature (line 740) and the query of line 486
\* as sequences of characters, for titles, backgrounds, names and
\* significances of at most one character
PaperTexts ==
    { <<"T", "i", "t", "l", "e", ":", " ">> \o title
        \o <<".", " ", "C", "o", "n", "t", "e", "x", "t", ":", " ">> \o background :
      title \in TextsUpTo(1), background \in TextsUpTo(1) }

ForceTexts ==
    { <<"I", "n", "t", "e", "r", "p", "a", "r", "t", "i", "c", "l", "e", " ",
        "I", "n", "t", "e", "r", "a", "c", "t", "i", "o", "n", ":", " ">> \o name
        \o <<".", " ", "S", "i", "g", "n", "i", "f", "i", "c", "a", "n", "c", "e", ":", " ">>
        \o significance :
      name \in TextsUpTo(1), significance \in TextsUpTo(1) }

EmbedTexts == TextsUpTo(MaxLen) \cup PaperTexts \cup ForceTexts

InitEmbed ==
    /\ Constructed
    /\ search = NoSearch
    /\ front = NoUpload
    /\ hash_call = NoHashCall
    /\ embed_call \in {[NoEmbedCall EXCEPT !.text = t] : t \in EmbedTexts}

\* one call of get_embedding up to the request to the service
CallEmbedding ==
    /\ ~ embed_call.done
    /\ embed_call' = [embed_call EXCEPT !.sent = embedding_input(embed_call.text),
                                        !.done = TRUE]
    /\ UNCHANGED <<db, tx, paper_index, force_index, paper_file, force_file,
                   paper_tmp, force_tmp, lock, pc, rec, row_id, force_id, ff_i,
                   returned, proc_of, calls, faults, stored_by, orphans, arg,
                   search, front, hash_call>>

NextEmbed == CallEmbedding

SpecEmbed == InitEmbed /\ [][NextEmbed]_vars

\* every character of s is whitespace (so is the empty text)
Blank(s) == \A i \in DOMAIN s : IsSpace(s[i])

\* C26: the text sent to the embedding service is never empty nor
\* whitespace-only: for an empty or whitespace-only argument it is the
\* placeholder, for any other argument (with or without newlines, and for
\* every text that update_vector_db and search_knowledge build) it has the
\* length of the argument and a character that is not whitespace.
C26_SentTextIsNeverBlank ==
    embed_call.done =>
        /\ ~ Blank(embed_call.sent)
        /\ Blank(embed_call.text) => embed_call.sent = Placeholder
        /\ ~ Blank(embed_call.text) => Len(embed_call.sent) = Len(embed_call.text)

\* a whitespace-only argument that holds a newline was replaced
C26_Witness ==
    /\ embed_call.done
    /\ embed_call.text = <<"\n", " ">>
    /\ embed_call.sent = Placeholder

\* the index entry of a papers row and of a force_fields row
PaperEntry(r) == [id |-> r.id, vec |-> get_embedding(paper_text(r.metadata_json))]
ForceEntry(f) == [id |-> f.id, vec |-> get_embedding(force_feature(f.force_json))]

\* C27: a vector is added to an in-memory index only under the id of a row
\* that the adding thread's open transaction has inserted; an index file
\* changes only by being replaced with a complete .tmp image of the
\* in-memory index that holds that vector; and a commit happens only when,
\* for the record and for every sub-record it inserted, the index file
\* already holds the entry (identifier and vector) - the commit never comes
\* before the replacement of either file.
C27_InsertAddReplaceCommit ==
    [][ /\ \A p \in Procs :
             ( /\ faults' = faults
               /\ Len(paper_index'[p]) = Len(paper_index[p]) + 1 )
             => \E w \in Workers :
                   /\ ProcOf(w) = p /\ tx[w] # NoTx
                   /\ \E r \in tx[w].papers \ db.papers :
                         r.id = paper_index'[p][Len(paper_index'[p])].id
        /\ \A p \in Procs :
             ( /\ faults' = faults
               /\ Len(force_index'[p]) = Len(force_index[p]) + 1 )
             => \E w \in Workers :
                   /\ ProcOf(w) = p /\ tx[w] # NoTx
                   /\ \E f \in tx[w].force_fields \ db.force_fields :
                         f.id = force_index'[p][Len(force_index'[p])].id
        /\ paper_file' # paper_file
             => /\ paper_tmp.exists /\ paper_file' = paper_tmp.content
                /\ \E w \in Workers :
                      /\ tx[w] # NoTx /\ paper_file' = paper_index[ProcOf(w)]
                      /\ \E r \in tx[w].papers \ db.papers : PaperEntry(r) \in Range(paper_file')
        /\ force_file' # force_file
             => /\ force_tmp.exists /\ force_file' = force_tmp.content
                /\ \E w \in Workers :
                      /\ tx[w] # NoTx /\ force_file' = force_index[ProcOf(w)]
                      /\ \A f \in tx[w].force_fields \ db.force_fields :
                            ForceEntry(f) \in Range(force_file')
        /\ db' # db
             => /\ \A r \in db'.papers \ db.papers : PaperEntry(r) \in Range(paper_file)
                /\ \A f \in db'.force_fields \ db.force_fields :
                      ForceEntry(f) \in Range(force_file)
                /\ UNCHANGED <<paper_file, force_file, paper_index, force_index>>
      ]_vars

\* an ingest that inserted a record and two sub-records has committed
C27_Witness ==
    /\ returned = "stored"
    /\ Cardinality(db.papers) = 1
    /\ Cardinality(db.force_fields) = 2
    /\ \A r \in db.papers : PaperEntry(r) \in Range(paper_file)
    /\ \A f \in db.force_fields : ForceEntry(f) \in Range(force_file)

\* C28: when a call of update_vector_db has ended in its error handler (and
\* no process died after saving an index), every entry of the two index
\* files and of the in-memory indexes belongs to a committed row: the failed
\* ingest left nothing in them.
C28_FailedIngestLeavesNoEntry ==
    ( returned = Return(Caller, "error") /\ orphans = {} )
    => /\ \A e \in Range(paper_file) : \E r \in db.papers : r.id = e.id
       /\ \A e \in Range(force_file) : \E f \in db.force_fields : f.id = e.id
       /\ \A p \in Procs :
             /\ \A e \in Range(paper_index[p]) : \E r \in db.papers : r.id = e.id
             /\ \A e \in Range(force_index[p]) : \E f \in db.force_fields : f.id = e.id

\* ------------------------------------------------------------------
\* The fingerprint of a sub-record (lines 727-733) as a function of the
\* formula and the environment, each of which may be absent.
Formulas     == {NoKey, "unknown_formula", "F", "FE"}
Environments == {NoKey, "unknown_env", "", "E", "EE"}

\* a sub-record with (or, for NoKey, without) the key 'formula', and a
\* record with or without the key 'environment'
SubRecordOf(formula) == [formula |-> formula, name |-> "N1"]
RecordOf(environment) ==
    IF environment = NoKey
    THEN Without(MkRecord("T1", "I", "B", "", 1, <<>>, 0), {"environment"})
    ELSE MkRecord("T1", "I", "B", environment, 1, <<>>, 0)

InitHash ==
    /\ Constructed
    /\ search = NoSearch
    /\ front = NoUpload
    /\ embed_call = NoEmbedCall
    /\ hash_call \in { [NoHashCall EXCEPT !.pairs = <<a, b>>] :
                         a \in Formulas \X Environments, b \in Formulas \X Environments }

\* lines 730-732 for the two sub-records
HashPairs ==
    /\ hash_call.formula_str = <<>>
    /\ hash_call' =
          [hash_call EXCEPT !.formula_str =
              [i \in 1 .. 2 |->
                  formula_hash(SubRecordOf(hash_call.pairs[i][1]),
                               RecordOf(hash_call.pairs[i][2]))]]
    /\ UNCHANGED <<db, tx, paper_index, force_index, paper_file, force_file,
                   paper_tmp, force_tmp, lock, pc, rec, row_id, force_id, ff_i,
                   returned, proc_of, calls, faults, stored_by, orphans, arg,
                   search, front, embed_call>>

NextHash == HashPairs

SpecHash == InitHash /\ [][NextHash]_vars

\* C29: two (formula, environment) pairs that differ, an absent formula or
\* environment included, give different hashed strings.
C29_DifferentPairsDifferentStrings ==
    ( hash_call.formula_str # <<>> /\ hash_call.pairs[1] # hash_call.pairs[2] )
    => hash_call.formula_str[1] # hash_call.formula_str[2]

====
